---- MODULE Spec2Model ----
(***************************************************************************)
(* Model of backend/mlx_transformer.py: the MLXLlamaTransformer session,   *)
(* its three generation entry points and the command-line entry point.     *)
(*                                                                         *)
(* Strings that the wrapper only passes along (prompts, handles) are       *)
(* opaque values.  Generated text is a sequence of symbols so that         *)
(* concatenating streamed fragments is sequence concatenation.  Floats are *)
(* written in tenths (0.7 is 7, 0.9 is 9).  The external library (mlx_lm)  *)
(* is a black box: every result it can give (a value or an exception) is   *)
(* a nondeterministic choice made by the action that calls it.             *)
(***************************************************************************)
EXTENDS Integers, Sequences, FiniteSets, TLC

VARIABLES
    mlx_available,  \* environment: do "import mlx.core" and "import mlx_lm" succeed
    entry,          \* "none" (process start), "main" (run as script), "import" (used as a library)
    exit_status,    \* Running, or the status the process ended with
    self,           \* attribute dictionary of the session object under construction / constructed
    ready,          \* TRUE once __init__ has returned: the caller holds the session
    op,             \* the last top-level operation and its arguments
    trace,          \* ordered external effects (prints, external calls) of the last operation
    outcome,        \* how the last operation ended: returned value, raised exception, or exit
    gen             \* the generator object made by stream_generate

vars == <<mlx_available, entry, exit_status, self, ready, op, trace, outcome, gen>>

----------------------------------------------------------------------------
(* Bounds of the model *)

\* most fragments the external streaming routine produces for one request
MaxFragments == 2
\* largest variant size (GB) the capacity test is tried on
MaxSizeGB == 80

(* Program constants *)

\* default of max_tokens in generate / chat / stream_generate
DefaultMaxTokens == 512
\* default of temperature (0.7, in tenths)
DefaultTemperature == 7
\* default of top_p in generate (0.9, in tenths)
DefaultTopP == 9
\* capacity threshold of the warning, in GB
RamGB == 16

Running == -1

----------------------------------------------------------------------------
(* Input domains *)

Alphabet == {"a", "b"}
Texts == {<<"a">>, <<"a", "b">>}
Fragments == {<<c>> : c \in Alphabet}

Prompts == {"p1", "p2"}
\* <<max_tokens, temperature>> pairs a caller passes
SamplingArgs == {<<DefaultMaxTokens, DefaultTemperature>>, <<1, 0>>}
MaxTokensOf(sa) == sa[1]
TemperatureOf(sa) == sa[2]
TopPArgs == {DefaultTopP, 10}
ModelNames == {"4bit", "8bit", "3bit", "2bit", "4BIT"}
ModelHandles == {"model_A", "model_B"}
TokenizerHandles == {"tok_A"}
LoadErrors == {[type |-> "OSError"], [type |-> "MemoryError"]}
GenerateErrors == {[type |-> "RuntimeError"]}
TemplateErrors == {[type |-> "TemplateError"]}

Ok(v) == [kind |-> "ok", val |-> v]
Raise(e) == [kind |-> "raise", val |-> e]
LoadResults == {Ok(<<m, t>>) : m \in ModelHandles, t \in TokenizerHandles}
               \cup {Raise(e) : e \in LoadErrors}
GenerateResults == {Ok(t) : t \in Texts} \cup {Raise(e) : e \in GenerateErrors}
TemplateResults == {Ok(p) : p \in Prompts} \cup {Raise(e) : e \in TemplateErrors}

SysMsg == [role |-> "system", content |-> "You are a helpful assistant."]
UserMsg == [role |-> "user", content |-> "What is Python?"]
\* variant: the two messages of the example in the other order
ExampleMessages_swapped == <<UserMsg, SysMsg>>
\* the conversation main() sends
ExampleMessages == <<SysMsg, UserMsg>>
Conversations == {ExampleMessages, <<UserMsg, SysMsg>>}

----------------------------------------------------------------------------
(* The session class *)

MODELS_keys == <<"4bit", "8bit", "3bit">>

\* variant: the "3bit" entry was copied from "4bit" and its repo left unchanged
MODELS_copied ==
    [k \in {"4bit", "8bit", "3bit"} |->
        CASE k = "4bit" -> [repo |-> "mlx-community/Llama-3.3-70B-Instruct-4bit",
                            size_gb |-> 38,
                            quality |-> "Good quality, 4-bit quantization"]
          [] k = "8bit" -> [repo |-> "mlx-community/Llama-3.3-70B-Instruct-8bit",
                            size_gb |-> 70,
                            quality |-> "High quality, requires 64GB+ RAM"]
          [] k = "3bit" -> [repo |-> "mlx-community/Llama-3.3-70B-Instruct-4bit",
                            size_gb |-> 28,
                            quality |-> "Lower quality, fits 32GB RAM"]]

MODELS ==
    [k \in {"4bit", "8bit", "3bit"} |->
        CASE k = "4bit" -> [repo |-> "mlx-community/Llama-3.3-70B-Instruct-4bit",
                            size_gb |-> 38,
                            quality |-> "Good quality, 4-bit quantization"]
          [] k = "8bit" -> [repo |-> "mlx-community/Llama-3.3-70B-Instruct-8bit",
                            size_gb |-> 70,
                            quality |-> "High quality, requires 64GB+ RAM"]
          [] k = "3bit" -> [repo |-> "mlx-community/Llama-3.3-70B-Instruct-3bit",
                            size_gb |-> 28,
                            quality |-> "Lower quality, fits 32GB RAM"]]

NoAttrs == [a \in {} |-> TRUE]

Stdout(what) == [ev |-> "print", what |-> what]

Returned(v) == [kind |-> "returned", val |-> v]
Raised(e) == [kind |-> "raised", val |-> e]
Exited(code) == [kind |-> "exit", val |-> code]

\* variant: the probe does not catch the failed import and reports success
check_mlx_always(available) == TRUE

check_mlx(available) == available

\* variant: the comparison is not strict
SizeWarning_atLeast(verbose, size_gb) == verbose /\ size_gb >= RamGB

\* the verbose branch of __init__ that decides on the capacity warning
SizeWarning(verbose, size_gb) == verbose /\ size_gb > RamGB

\* prints of __init__ between the table lookup and the load
InitBanner(model_name, verbose, model_info) ==
    (IF verbose
        THEN <<[ev |-> "print", what |-> "banner", name |-> model_name,
                repo |-> model_info.repo, size_gb |-> model_info.size_gb,
                quality |-> model_info.quality]>>
        ELSE << >>)
    \o (IF SizeWarning(verbose, model_info.size_gb) THEN <<Stdout("warning")>> ELSE << >>)
    \o (IF verbose THEN <<Stdout("loading")>> ELSE << >>)

LoadCall(repo, result) == [ev |-> "load", repo |-> repo, result |-> result]

\* variant: the load is wrapped and its exception replaced by another
LoadModel_wrapped(attrs, verbose, repo, loadResult) ==
    IF loadResult.kind = "raise"
    THEN [self    |-> attrs,
          events  |-> <<LoadCall(repo, loadResult)>>,
          outcome |-> Raised([type |-> "RuntimeError"])]
    ELSE [self    |-> attrs @@ [model |-> loadResult.val[1], tokenizer |-> loadResult.val[2]],
          events  |-> <<LoadCall(repo, loadResult)>>
                         \o (IF verbose THEN <<Stdout("loaded")>> ELSE << >>),
          outcome |-> Returned("session")]

\* the statement "self.model, self.tokenizer = load(model_info['repo'])" and the
\* print after it: an exception of load leaves the statement, and __init__, at once
LoadModel(attrs, verbose, repo, loadResult) ==
    IF loadResult.kind = "raise"
    THEN [self    |-> attrs,
          events  |-> <<LoadCall(repo, loadResult)>>,
          outcome |-> Raised(loadResult.val)]
    ELSE [self    |-> attrs @@ [model |-> loadResult.val[1], tokenizer |-> loadResult.val[2]],
          events  |-> <<LoadCall(repo, loadResult)>>
                         \o (IF verbose THEN <<Stdout("loaded")>> ELSE << >>),
          outcome |-> Returned("session")]

\* variant: no membership test, the table lookup itself fails
UnknownModel_KeyError(model_name) ==
    [type |-> "KeyError", key |-> model_name]

\* the ValueError of an unknown model_name: the message holds the name given and
\* list(self.MODELS.keys())
UnknownModel(model_name) ==
    [type |-> "ValueError", key |-> model_name, options |-> MODELS_keys]

\* MLXLlamaTransformer.__init__(model_name, verbose=verbose); loadResult is what
\* the external load routine does if it is called.
MLXLlamaTransformer_init(available, model_name, verbose, loadResult) ==
    IF ~check_mlx(available)
    THEN [self    |-> NoAttrs,
          events  |-> <<Stdout("mlx_not_installed"), Stdout("install_hint")>>,
          outcome |-> Exited(1)]
    ELSE
      LET attrs == [mx |-> "mlx.core", generate_fn |-> "mlx_lm.generate", verbose |-> verbose]
      IN IF model_name \notin DOMAIN MODELS
         THEN [self    |-> attrs,
               events  |-> << >>,
               outcome |-> Raised(UnknownModel(model_name))]
         ELSE
           LET model_info == MODELS[model_name]
               l == LoadModel(attrs, verbose, model_info.repo, loadResult)
           IN [self    |-> l.self,
               events  |-> InitBanner(model_name, verbose, model_info) \o l.events,
               outcome |-> l.outcome]

\* variant: top_p is left at its default instead of being forwarded
GenerateCall_defaultTopP(obj, prompt, max_tokens, temperature, top_p, result) ==
    [ev |-> "generate", model |-> obj.model, tokenizer |-> obj.tokenizer,
     prompt |-> prompt, max_tokens |-> max_tokens, temp |-> temperature,
     top_p |-> DefaultTopP, verbose |-> obj.verbose, result |-> result]

GenerateCall(obj, prompt, max_tokens, temperature, top_p, result) ==
    [ev |-> "generate", model |-> obj.model, tokenizer |-> obj.tokenizer,
     prompt |-> prompt, max_tokens |-> max_tokens, temp |-> temperature,
     top_p |-> top_p, verbose |-> obj.verbose, result |-> result]

\* MLXLlamaTransformer.generate(prompt, max_tokens, temperature, top_p)
generate(obj, prompt, max_tokens, temperature, top_p, genResult) ==
    [events  |-> <<GenerateCall(obj, prompt, max_tokens, temperature, top_p, genResult)>>,
     outcome |-> IF genResult.kind = "raise" THEN Raised(genResult.val)
                 ELSE Returned(genResult.val)]

TemplateCall(obj, messages, result) ==
    [ev |-> "apply_chat_template", tokenizer |-> obj.tokenizer, messages |-> messages,
     tokenize |-> FALSE, add_generation_prompt |-> TRUE, result |-> result]

\* variant: temperature is not passed on to generate
chat_defaultTemperature(obj, messages, max_tokens, temperature, tplResult, genResult) ==
    LET render == <<TemplateCall(obj, messages, tplResult)>>
    IN IF tplResult.kind = "raise"
       THEN [events |-> render, outcome |-> Raised(tplResult.val)]
       ELSE LET g == generate(obj, tplResult.val, max_tokens, DefaultTemperature,
                              DefaultTopP, genResult)
            IN [events |-> render \o g.events, outcome |-> g.outcome]

\* MLXLlamaTransformer.chat(messages, max_tokens, temperature)
chat(obj, messages, max_tokens, temperature, tplResult, genResult) ==
    LET render == <<TemplateCall(obj, messages, tplResult)>>
    IN IF tplResult.kind = "raise"
       THEN [events |-> render, outcome |-> Raised(tplResult.val)]
       ELSE LET g == generate(obj, tplResult.val, max_tokens, temperature,
                              DefaultTopP, genResult)
            IN [events |-> render \o g.events, outcome |-> g.outcome]

StreamCall(obj, prompt, max_tokens, temperature) ==
    [ev |-> "stream_generate", model |-> obj.model, tokenizer |-> obj.tokenizer,
     prompt |-> prompt, max_tokens |-> max_tokens, temp |-> temperature]

NoRequest == [ev |-> "none"]
NoGen == [pc |-> "none", prompt |-> "", max_tokens |-> 0, temperature |-> 0,
          request |-> NoRequest, produced |-> << >>, yielded |-> << >>,
          last |-> [kind |-> "none"]]

\* MLXLlamaTransformer.stream_generate(prompt, max_tokens, temperature): calling a
\* generator function runs none of its body; it only binds the arguments.
stream_generate(prompt, max_tokens, temperature) ==
    [NoGen EXCEPT !.pc = "created", !.prompt = prompt, !.max_tokens = max_tokens,
                  !.temperature = temperature]

\* the statement "yield token" of the loop body
YieldToken(yielded, token) == Append(yielded, token)

\* next() on the generator: the first one runs the body up to the external call,
\* every one then asks the external routine for its next item.  extResult is what
\* the external streaming routine does: Ok(fragment), exhaustion, or Raise(e).
stream_next(g, obj, extResult) ==
    LET request == IF g.pc = "created"
                   THEN StreamCall(obj, g.prompt, g.max_tokens, g.temperature)
                   ELSE g.request
    IN CASE extResult.kind = "ok" ->
              [g EXCEPT !.pc = "suspended", !.request = request,
                        !.produced = Append(g.produced, extResult.val),
                        !.yielded = YieldToken(g.yielded, extResult.val),
                        !.last = Returned(extResult.val)]
         [] extResult.kind = "stop" ->
              [g EXCEPT !.pc = "exhausted", !.request = request,
                        !.last = Raised([type |-> "StopIteration"])]
         [] extResult.kind = "raise" ->
              [g EXCEPT !.pc = "failed", !.request = request,
                        !.last = Raised(extResult.val)]

StreamResults(g) ==
    (IF Len(g.produced) < MaxFragments THEN {Ok(f) : f \in Fragments} ELSE {})
    \cup {[kind |-> "stop"]} \cup {Raise(e) : e \in GenerateErrors}

\* main(): confirm is the --confirm flag; the other arguments are what the
\* external routines do if they are called.
main(available, confirm, loadResult, tplResult, genResult) ==
    LET intro == <<Stdout("note_16gb"), Stdout("try_32gb")>>
    IN IF ~confirm
       THEN [self |-> NoAttrs, ready |-> FALSE,
             events |-> intro \o <<Stdout("run_with_confirm"), Stdout("use_llama_transformer")>>,
             outcome |-> Returned("None")]
       ELSE
         LET c == MLXLlamaTransformer_init(available, "4bit", TRUE, loadResult)
             newSession == [ev |-> "MLXLlamaTransformer", model_name |-> "4bit"]
         IN IF c.outcome.kind # "returned"
            THEN [self |-> c.self, ready |-> FALSE,
                  events |-> intro \o <<newSession>> \o c.events,
                  outcome |-> c.outcome]
            ELSE
              LET r == chat(c.self, ExampleMessages, DefaultMaxTokens, DefaultTemperature,
                            tplResult, genResult)
                  chatCall == [ev |-> "chat", messages |-> ExampleMessages]
                  chatReturn == [ev |-> "chat_return"]
              IN IF r.outcome.kind # "returned"
                 THEN [self |-> c.self, ready |-> TRUE,
                       events |-> intro \o <<newSession>> \o c.events \o <<chatCall>> \o r.events,
                       outcome |-> r.outcome]
                 ELSE [self |-> c.self, ready |-> TRUE,
                       events |-> intro \o <<newSession>> \o c.events \o <<chatCall>> \o r.events
                                     \o <<chatReturn,
                                          [ev |-> "print", what |-> "response",
                                           text |-> r.outcome.val]>>,
                       outcome |-> Returned("None")]

\* status the interpreter ends with: 0 on normal return, the code of sys.exit,
\* 1 on an uncaught exception
ExitStatusOf(out) ==
    CASE out.kind = "returned" -> 0
      [] out.kind = "exit" -> out.val
      [] out.kind = "raised" -> 1

----------------------------------------------------------------------------
(* State machine *)

NoOp == [name |-> "none"]

Init ==
    /\ mlx_available \in BOOLEAN
    /\ entry = "none"
    /\ exit_status = Running
    /\ self = NoAttrs
    /\ ready = FALSE
    /\ op = NoOp
    /\ trace = << >>
    /\ outcome = [kind |-> "none"]
    /\ gen = NoGen

\* python mlx_transformer.py [--confirm]
Main ==
    /\ entry = "none"
    /\ \E confirm \in BOOLEAN, lr \in LoadResults, tr \in TemplateResults,
          gr \in GenerateResults :
         LET m == main(mlx_available, confirm, lr, tr, gr)
         IN /\ self' = m.self
            /\ ready' = m.ready
            /\ op' = [name |-> "main", confirm |-> confirm]
            /\ trace' = m.events
            /\ outcome' = m.outcome
            /\ exit_status' = ExitStatusOf(m.outcome)
    /\ entry' = "main"
    /\ UNCHANGED <<mlx_available, gen>>

\* a program that imported the module calls MLXLlamaTransformer(model_name, verbose=verbose)
Construct ==
    /\ entry # "main"
    /\ exit_status = Running
    /\ ~ready
    /\ \E model_name \in ModelNames, verbose \in BOOLEAN, lr \in LoadResults :
         LET c == MLXLlamaTransformer_init(mlx_available, model_name, verbose, lr)
         IN /\ self' = c.self
            /\ ready' = (c.outcome.kind = "returned")
            /\ op' = [name |-> "init", model_name |-> model_name, verbose |-> verbose]
            /\ trace' = c.events
            /\ outcome' = c.outcome
            /\ exit_status' = IF c.outcome.kind = "exit" THEN c.outcome.val ELSE Running
    /\ entry' = "import"
    /\ UNCHANGED <<mlx_available, gen>>

Generate ==
    /\ exit_status = Running
    /\ ready
    /\ \E prompt \in Prompts, sa \in SamplingArgs, top_p \in TopPArgs, gr \in GenerateResults :
         LET max_tokens == MaxTokensOf(sa)
             temperature == TemperatureOf(sa)
             g == generate(self, prompt, max_tokens, temperature, top_p, gr)
         IN /\ op' = [name |-> "generate", prompt |-> prompt, max_tokens |-> max_tokens,
                      temperature |-> temperature, top_p |-> top_p]
            /\ trace' = g.events
            /\ outcome' = g.outcome
    /\ UNCHANGED <<mlx_available, entry, exit_status, self, ready, gen>>

Chat ==
    /\ exit_status = Running
    /\ ready
    /\ \E messages \in Conversations, sa \in SamplingArgs, tr \in TemplateResults,
          gr \in GenerateResults :
         LET max_tokens == MaxTokensOf(sa)
             temperature == TemperatureOf(sa)
             r == chat(self, messages, max_tokens, temperature, tr, gr)
         IN /\ op' = [name |-> "chat", messages |-> messages, max_tokens |-> max_tokens,
                      temperature |-> temperature]
            /\ trace' = r.events
            /\ outcome' = r.outcome
    /\ UNCHANGED <<mlx_available, entry, exit_status, self, ready, gen>>

StreamGenerate ==
    /\ exit_status = Running
    /\ ready
    /\ \E prompt \in Prompts, sa \in SamplingArgs :
         gen' = stream_generate(prompt, MaxTokensOf(sa), TemperatureOf(sa))
    /\ UNCHANGED <<mlx_available, entry, exit_status, self, ready, op, trace, outcome>>

StreamNext ==
    /\ exit_status = Running
    /\ ready
    /\ gen.pc \in {"created", "suspended"}
    /\ \E er \in StreamResults(gen) : gen' = stream_next(gen, self, er)
    /\ UNCHANGED <<mlx_available, entry, exit_status, self, ready, op, trace, outcome>>

\* variant: dropping the generator also releases the session's handles
StreamAbandon_release ==
    /\ exit_status = Running
    /\ ready
    /\ gen.pc \in {"created", "suspended"}
    /\ gen' = [NoGen EXCEPT !.pc = "closed"]
    /\ self' = [mx |-> self.mx, generate_fn |-> self.generate_fn, verbose |-> self.verbose]
    /\ ready' = FALSE
    /\ UNCHANGED <<mlx_available, entry, exit_status, op, trace, outcome>>

\* the caller stops iterating and drops the generator: the object is gone, only
\* the fact that a stream was abandoned is kept
StreamAbandon ==
    /\ exit_status = Running
    /\ ready
    /\ gen.pc \in {"created", "suspended"}
    /\ gen' = [NoGen EXCEPT !.pc = "closed"]
    /\ UNCHANGED <<mlx_available, entry, exit_status, self, ready, op, trace, outcome>>

Next ==
    \/ Main
    \/ Construct
    \/ Generate
    \/ Chat
    \/ StreamGenerate
    \/ StreamNext
    \/ StreamAbandon

Spec == Init /\ [][Next]_vars

----------------------------------------------------------------------------
(* Properties *)

\* positions of the events of one kind in the last operation's trace
At(kind) == {i \in DOMAIN trace : trace[i].ev = kind}

\* the last operation ran __init__: directly, or from main with --confirm
Constructing == op.name = "init" \/ (op.name = "main" /\ op.confirm)
ConstructedName == IF op.name = "init" THEN op.model_name ELSE "4bit"
ConstructedVerbose == IF op.name = "init" THEN op.verbose ELSE TRUE

ValidNames == {"4bit", "8bit", "3bit"}

\* C1 as stated: for every variant key outside the table, construction fails with
\* a ValueError that names the key and lists the valid keys, and load is never
\* invoked during that construction.
C1_UnknownKeyAlwaysValueError ==
    (op.name = "init" /\ op.model_name \notin ValidNames) =>
        /\ outcome.kind = "raised"
        /\ outcome.val = [type |-> "ValueError", key |-> op.model_name,
                          options |-> <<"4bit", "8bit", "3bit">>]
        /\ At("load") = {}

\* C1 amended: for every variant key outside the table, load is never invoked
\* during the construction, and when the runtime is available the construction
\* fails with a ValueError that names the key and lists the valid keys.
C1_UnknownKeyValueErrorWhenAvailable ==
    (op.name = "init" /\ op.model_name \notin ValidNames) =>
        /\ At("load") = {}
        /\ ~ready
        /\ mlx_available =>
             /\ outcome.kind = "raised"
             /\ outcome.val = [type |-> "ValueError", key |-> op.model_name,
                               options |-> <<"4bit", "8bit", "3bit">>]

C1_Witness ==
    /\ op.name = "init"
    /\ op.model_name = "4BIT"
    /\ mlx_available
    /\ outcome.kind = "raised"

\* C2: when the availability probe reports the runtime unavailable, a
\* construction (any key, either verbosity) never invokes load and the process
\* ends with a non-zero exit status.
C2_UnavailableExitsWithoutLoad ==
    (Constructing /\ ~mlx_available) =>
        /\ At("load") = {}
        /\ exit_status # Running
        /\ exit_status # 0
        /\ ~ready

C2_Witness ==
    /\ op.name = "init"
    /\ ~mlx_available
    /\ op.model_name = "2bit"
    /\ ~op.verbose
    /\ exit_status = 1

\* C3: generate(prompt, max_tokens, temperature, top_p) invokes the external
\* generation routine exactly once, with the session's model and tokenizer and
\* those four values unmodified, and returns exactly what the routine returned.
C3_GenerateForwardsVerbatim ==
    op.name = "generate" =>
        /\ Cardinality(At("generate")) = 1
        /\ \A i \in At("generate") :
             /\ trace[i].model = self.model
             /\ trace[i].tokenizer = self.tokenizer
             /\ trace[i].prompt = op.prompt
             /\ trace[i].max_tokens = op.max_tokens
             /\ trace[i].temp = op.temperature
             /\ trace[i].top_p = op.top_p
             /\ (trace[i].result.kind = "ok" =>
                    outcome.kind = "returned" /\ outcome.val = trace[i].result.val)
             /\ (trace[i].result.kind = "raise" =>
                    outcome.kind = "raised" /\ outcome.val = trace[i].result.val)

C3_Witness ==
    /\ op.name = "generate"
    /\ op.top_p = 10
    /\ op.max_tokens = 1
    /\ op.temperature = 0
    /\ outcome.kind = "returned"
    /\ outcome.val = <<"a", "b">>

\* C4: chat(messages, max_tokens, temperature) renders the template with exactly
\* the given ordered messages (generation prompt on, tokenization off) strictly
\* before the external generation routine is invoked, and that invocation gets
\* the rendered prompt, the caller's max_tokens and temperature, and top_p 0.9.
C4_ChatRendersThenGenerates ==
    op.name = "chat" =>
        /\ Len(trace) >= 1
        /\ trace[1].ev = "apply_chat_template"
        /\ trace[1].messages = op.messages
        /\ trace[1].add_generation_prompt
        /\ ~trace[1].tokenize
        /\ At("apply_chat_template") = {1}
        /\ \A i \in At("generate") :
             /\ i > 1
             /\ trace[1].result.kind = "ok"
             /\ trace[i].prompt = trace[1].result.val
             /\ trace[i].max_tokens = op.max_tokens
             /\ trace[i].temp = op.temperature
             /\ trace[i].top_p = 9
        /\ (trace[1].result.kind = "ok" => Cardinality(At("generate")) = 1)

C4_Witness ==
    /\ op.name = "chat"
    /\ op.messages = <<[role |-> "user", content |-> "What is Python?"],
                       [role |-> "system", content |-> "You are a helpful assistant."]>>
    /\ op.max_tokens = 1
    /\ op.temperature = 0
    /\ At("generate") = {2}
    /\ outcome.kind = "returned"

\* the arguments of a call to the external library that make up the generation
\* request (prompt, max_tokens, temp, top_p), as far as the call passes them
RequestOf(call) ==
    [k \in DOMAIN call \cap {"model", "tokenizer", "prompt", "max_tokens", "temp", "top_p"}
        |-> call[k]]

\* C5 as stated: when a stream for (prompt, max_tokens, temperature) has been
\* consumed to exhaustion and generate was called with the same three values
\* (top_p at its default), the fragments yielded are exactly those the external
\* streaming routine produced, in order, and the two calls handed the external
\* library the same request.
C5_StreamEqualsGenerate ==
    (/\ gen.pc = "exhausted"
     /\ op.name = "generate"
     /\ op.prompt = gen.prompt
     /\ op.max_tokens = gen.max_tokens
     /\ op.temperature = gen.temperature
     /\ op.top_p = 9) =>
        /\ gen.yielded = gen.produced
        /\ RequestOf(gen.request) = RequestOf(trace[1])

\* the expected table, written out
ExpectedRepo(k) ==
    CASE k = "4bit" -> "mlx-community/Llama-3.3-70B-Instruct-4bit"
      [] k = "8bit" -> "mlx-community/Llama-3.3-70B-Instruct-8bit"
      [] k = "3bit" -> "mlx-community/Llama-3.3-70B-Instruct-3bit"
ExpectedSize(k) ==
    CASE k = "4bit" -> 38
      [] k = "8bit" -> 70
      [] k = "3bit" -> 28
ExpectedQuality(k) ==
    CASE k = "4bit" -> "Good quality, 4-bit quantization"
      [] k = "8bit" -> "High quality, requires 64GB+ RAM"
      [] k = "3bit" -> "Lower quality, fits 32GB RAM"

\* C6: with the runtime available, a construction with a valid key resolves the
\* key to its one fixed record (repository, size, quality note) and invokes load
\* exactly once, with that record's repository as the argument.
C6_ValidKeyLoadsItsRepoOnce ==
    (Constructing /\ mlx_available /\ ConstructedName \in ValidNames) =>
        /\ Cardinality(At("load")) = 1
        /\ \A i \in At("load") : trace[i].repo = ExpectedRepo(ConstructedName)
        /\ \A i \in At("print") :
             trace[i].what = "banner" =>
                /\ trace[i].name = ConstructedName
                /\ trace[i].repo = ExpectedRepo(ConstructedName)
                /\ trace[i].size_gb = ExpectedSize(ConstructedName)
                /\ trace[i].quality = ExpectedQuality(ConstructedName)
        /\ (ConstructedVerbose => \E i \in At("print") : trace[i].what = "banner")

C6_Witness ==
    /\ op.name = "init"
    /\ op.model_name = "3bit"
    /\ ~op.verbose
    /\ ready
    /\ \E i \in At("load") : trace[i].repo = "mlx-community/Llama-3.3-70B-Instruct-3bit"

\* C7: a failure of load during construction reaches the caller unmodified, load
\* is attempted at most once per construction, and a session whose load failed
\* is not Ready and holds no model or tokenizer handle.
C7_LoadFailurePropagates ==
    /\ Constructing =>
         /\ Cardinality(At("load")) <= 1
         /\ \A i \in At("load") :
              trace[i].result.kind = "raise" =>
                 /\ outcome.kind = "raised"
                 /\ outcome.val = trace[i].result.val
                 /\ ~ready
                 /\ "model" \notin DOMAIN self
                 /\ "tokenizer" \notin DOMAIN self
    /\ ready => {"model", "tokenizer"} \subseteq DOMAIN self
    /\ op.name \in {"generate", "chat"} => ready
    /\ gen.pc # "none" => ready

C7_Witness ==
    /\ op.name = "init"
    /\ op.model_name = "8bit"
    /\ outcome.kind = "raised"
    /\ outcome.val = [type |-> "MemoryError"]
    /\ \E i \in At("load") : trace[i].result.kind = "raise"

\* the trace of main() has the response printed, after the chat call returned
ResponsePrinted ==
    \E i \in At("chat_return") :
        /\ Len(trace) = i + 1
        /\ trace[i + 1].ev = "print"
        /\ trace[i + 1].what = "response"
        /\ \E j \in At("generate") :
             j < i /\ trace[j].result.kind = "ok" /\ trace[i + 1].text = trace[j].result.val

MainWithoutConfirm ==
    (op.name = "main" /\ ~op.confirm) =>
        /\ exit_status = 0
        /\ outcome.kind = "returned"
        /\ \A i \in DOMAIN trace : trace[i].ev = "print"
        /\ Len(trace) > 0
        /\ self = NoAttrs
        /\ ~ready

\* C8 as stated: without --confirm main prints guidance and ends with status 0
\* without constructing, probing or loading; with --confirm it constructs
\* exactly one "4bit" session, makes exactly one chat call with the two-message
\* example, and prints the response after the chat call returns.
C8_ConfirmAlwaysChats ==
    /\ MainWithoutConfirm
    /\ (op.name = "main" /\ op.confirm) =>
         /\ Cardinality(At("MLXLlamaTransformer")) = 1
         /\ \A i \in At("MLXLlamaTransformer") : trace[i].model_name = "4bit"
         /\ Cardinality(At("chat")) = 1
         /\ ResponsePrinted

\* C8 amended: without --confirm as stated.  With --confirm main constructs
\* exactly one "4bit" session; if the construction succeeds it makes exactly
\* one chat call with the two-message example, otherwise none; if the chat call
\* returns, the response it returned is printed after it, otherwise nothing is
\* printed after it and the process ends with a non-zero status.
C8_ConfirmChatsWhenConstructed ==
    /\ MainWithoutConfirm
    /\ (op.name = "main" /\ op.confirm) =>
         /\ Cardinality(At("MLXLlamaTransformer")) = 1
         /\ \A i \in At("MLXLlamaTransformer") : trace[i].model_name = "4bit"
         /\ Cardinality(At("chat")) = (IF ready THEN 1 ELSE 0)
         /\ ready <=> (mlx_available /\ \E i \in At("load") : trace[i].result.kind = "ok")
         /\ \A i \in At("chat") :
              /\ trace[i].messages =
                    <<[role |-> "system", content |-> "You are a helpful assistant."],
                      [role |-> "user", content |-> "What is Python?"]>>
              /\ \A j \in At("MLXLlamaTransformer") \cup At("load") : j < i
              /\ \A j \in At("apply_chat_template") : j > i /\ trace[j].messages = trace[i].messages
         /\ Cardinality(At("apply_chat_template")) = Cardinality(At("chat"))
         /\ (outcome.kind = "returned") <=> ResponsePrinted
         /\ (outcome.kind = "returned") <=> (exit_status = 0)
         /\ (outcome.kind # "returned") =>
              /\ exit_status = 1
              /\ \A i \in At("print") : trace[i].what # "response"

C8_Witness ==
    /\ op.name = "main"
    /\ op.confirm
    /\ exit_status = 0
    /\ ResponsePrinted
    /\ Cardinality(At("chat")) = 1

\* C9: the capacity warning is printed during a construction exactly when the
\* construction resolved a variant, the session is verbose and the variant's
\* size is greater than 16 GB; it then precedes the call of load, and load is
\* still called.  For every size up to MaxSizeGB the test is "verbose and
\* size > 16": 38, 70 and 28 pass it, 16 and less do not.
C9_WarningIffVerboseAndLarge ==
    /\ Constructing =>
         LET warnings == {i \in At("print") : trace[i].what = "warning"}
             resolved == mlx_available /\ ConstructedName \in ValidNames
         IN /\ (warnings # {}) <=>
                  (resolved /\ ConstructedVerbose /\ ExpectedSize(ConstructedName) > 16)
            /\ Cardinality(warnings) <= 1
            /\ \A i \in warnings : \E j \in At("load") : i < j
            /\ resolved => At("load") # {}
    /\ ~Constructing => \A i \in At("print") : trace[i].what # "warning"
    /\ \A v \in BOOLEAN, size \in 0..MaxSizeGB :
         SizeWarning(v, size) <=> (v /\ size > 16)

C9_Witness ==
    /\ op.name = "init"
    /\ op.model_name = "3bit"
    /\ op.verbose
    /\ \E i \in At("print"), j \in At("load") : trace[i].what = "warning" /\ i < j
    /\ ready

\* C10: a session is Unloaded or Ready; only a construction that succeeds makes
\* it Ready, and once it is Ready no step (generate, chat, stream_generate,
\* next on a stream, abandoning a stream, whether or not the call fails)
\* makes it Unloaded again or changes its model, tokenizer or verbose attribute.
C10_ReadyIsStable ==
    [][/\ ready => (ready' /\ self' = self)
       /\ (~ready /\ ready') =>
            /\ op'.name \in {"init", "main"}
            /\ {"model", "tokenizer", "verbose"} \subseteq DOMAIN self'
       /\ (~ready /\ ~ready') => ({"model", "tokenizer"} \cap DOMAIN self' = {})]_vars

C10_Witness ==
    /\ ready
    /\ gen.pc = "closed"
    /\ op.name = "chat"
    /\ outcome.kind = "raised"

====
